---------------------------- MODULE Spec2Model ----------------------------
(***************************************************************************)
(* A model of the ninja dependency parser and the selective test filter:   *)
(*   src/src/enhanced_ninja_parser.py   (parse, extract, build, export)    *)
(*   src/src/selective_test_filter.py   (select_tests)                     *)
(* Paths, build lines and tool output are strings, handled character by    *)
(* character the way the Python string methods and regular expressions do. *)
(***************************************************************************)
EXTENDS Naturals, Sequences, FiniteSets, TLC

VARIABLES
    pc,                     \* position of main() of enhanced_ninja_parser.py
    build_file,             \* the file system's answer for the build file
    ninja_probe,            \* outcome of `ninja --version`
    content,                \* text of the build file
    lines,                  \* content.split('\n') once read
    lineIdx,                \* number of lines the parse loop has handled
    executable_to_objects,  \* exe -> [object_files]
    object_to_source,       \* object -> primary_source
    work_queue,             \* objects submitted to the pool that no worker has taken yet
    task,                   \* object -> state of its worker task
    outcome,                \* object -> how its dependency query ended
    result,                 \* object -> the list its finished future holds
    object_to_all_deps,     \* object -> [all_dependencies]
    todo,                   \* (exe, object index, dep index) not yet visited
    file_to_executables,    \* file -> {executables}
    csv_file,               \* the exported CSV, or NotWritten
    json_file,              \* the exported JSON mapping_data, or NotWritten
    exit_code,              \* the process's exit status, once it has ended
    path,                   \* a path handed to _is_project_file
    verdict,                \* what _is_project_file returned for it
    depmap,                 \* the mapping handed to select_tests
    changed_files,          \* the changed files handed to select_tests
    filter_mode,            \* the filter mode handed to select_tests
    tests                   \* what select_tests returned

vars == <<pc, build_file, ninja_probe, content, lines, lineIdx,
          executable_to_objects, object_to_source, work_queue, task, outcome, result,
          object_to_all_deps, todo, file_to_executables, csv_file, json_file,
          exit_code, path, verdict, depmap, changed_files, filter_mode, tests>>

parserVars == <<pc, build_file, ninja_probe, content, lines, lineIdx,
                executable_to_objects, object_to_source, work_queue, task, outcome, result,
                object_to_all_deps, todo, file_to_executables, csv_file,
                json_file, exit_code>>
classifierVars == <<path, verdict>>
filterVars == <<depmap, changed_files, filter_mode, tests>>

(***************************************************************************)
(* Bounds of the model.                                                    *)
(***************************************************************************)
\* lines of a build file in the pipeline specification
MaxGraphLines == 3
\* lines of a build file in the parser specification
MaxLines == 2
\* keys of a mapping, and changed files, in the filter specification
MaxKeys == 2
\* queries of the extraction specification that may end, and be handed over,
\* before or after any other query
MaxUnordered == 2

(***************************************************************************)
(* Python strings.                                                         *)
(***************************************************************************)
Char(s, i) == SubSeq(s, i, i)

\* str.startswith
StartsWith(s, p) == Len(s) >= Len(p) /\ SubSeq(s, 1, Len(p)) = p

\* str.endswith
EndsWith(s, p) == Len(s) >= Len(p) /\ SubSeq(s, Len(s) - Len(p) + 1, Len(s)) = p

\* `p in s`
Contains(s, p) ==
    \E i \in 1..(Len(s) + 1) :
        i + Len(p) - 1 <= Len(s) /\ SubSeq(s, i, i + Len(p) - 1) = p

\* the characters \s matches and str.split() / str.strip() treat as blank
IsSpace(c) == c \in {" ", "\t", "\n"}

\* character classes of the regular expressions: \s, \S, ':', '|', '\n', [\s|]
InClass(class, c) ==
    CASE class = "space" -> IsSpace(c)
      [] class = "notspace" -> ~IsSpace(c)
      [] class = "colon" -> c = ":"
      [] class = "pipe" -> c = "|"
      [] class = "newline" -> c = "\n"
      [] class = "space_or_pipe" -> IsSpace(c) \/ c = "|"

\* the first index >= i of s whose character is in the class, or Len(s)+1
RECURSIVE FindFrom(_, _, _)
FindFrom(s, i, class) ==
    IF i > Len(s) \/ InClass(class, Char(s, i)) THEN i
    ELSE FindFrom(s, i + 1, class)

\* str.strip()
RECURSIVE RStrip(_)
RStrip(s) ==
    IF Len(s) > 0 /\ IsSpace(Char(s, Len(s)))
    THEN RStrip(SubSeq(s, 1, Len(s) - 1)) ELSE s
LStrip(s) == SubSeq(s, FindFrom(s, 1, "notspace"), Len(s))
Strip(s) == RStrip(LStrip(s))

\* str.split(): the maximal runs of non-blank characters, in order
RECURSIVE SplitFrom(_, _)
SplitFrom(s, i) ==
    LET b == FindFrom(s, i, "notspace")
        e == FindFrom(s, b, "space")
    IN  IF b > Len(s) THEN <<>>
        ELSE <<SubSeq(s, b, e - 1)>> \o SplitFrom(s, e)
Split(s) == SplitFrom(s, 1)

\* str.split('\n'): always at least one piece
RECURSIVE SplitLinesFrom(_, _)
SplitLinesFrom(s, i) ==
    LET e == FindFrom(s, i, "newline")
    IN  IF e > Len(s) THEN <<SubSeq(s, i, Len(s))>>
        ELSE <<SubSeq(s, i, e - 1)>> \o SplitLinesFrom(s, e + 1)
SplitLines(s) == SplitLinesFrom(s, 1)

\* '\n'.join
RECURSIVE JoinLines(_)
JoinLines(ls) ==
    IF Len(ls) = 0 THEN ""
    ELSE IF Len(ls) = 1 THEN ls[1]
    ELSE ls[1] \o "\n" \o JoinLines(Tail(ls))

\* the elements of a sequence
Range(q) == {q[i] : i \in 1..Len(q)}

\* sequences over S of length at most n
SeqUpTo(S, n) == UNION {[1..k -> S] : k \in 0..n}

(***************************************************************************)
(* _is_project_file                                                        *)
(***************************************************************************)
IncludePrefixes ==
    {"include/", "library/", "test/", "example/", "src/", "profiler/",
     "build-ninja/include/", "build-ninja/_deps/gtest"}

ExcludePrefixes == {"/usr/", "/opt/rocm", "/lib/", "/system/"}

SourceExtensions == {".cpp", ".hpp", ".h", ".c", ".cc", ".cxx", ".cu", ".hip"}

\* the classifier with the extension test moved ahead of the exclude test
is_project_file_ext_first(file_path) ==
    IF \E prefix \in IncludePrefixes : StartsWith(file_path, prefix) THEN TRUE
    ELSE IF \E ext \in SourceExtensions : EndsWith(file_path, ext) THEN TRUE
    ELSE FALSE

_is_project_file(file_path) ==
    IF \E prefix \in IncludePrefixes : StartsWith(file_path, prefix) THEN TRUE
    ELSE IF \E prefix \in ExcludePrefixes : StartsWith(file_path, prefix) THEN FALSE
    ELSE IF \E ext \in SourceExtensions : EndsWith(file_path, ext) THEN TRUE
    ELSE FALSE

(***************************************************************************)
(* Dictionaries.                                                           *)
(***************************************************************************)
EmptyDict == <<>>

\* d[k] = v
Put(d, k, v) == [x \in (DOMAIN d) \cup {k} |-> IF x = k THEN v ELSE d[x]]

\* defaultdict(set): d[k].add(v)
AddTo(d, k, v) ==
    [x \in (DOMAIN d) \cup {k} |->
        IF x = k THEN (IF k \in DOMAIN d THEN d[k] ELSE {}) \cup {v} ELSE d[x]]

\* d[k] = {v}: the set replaced where it should grow
AddToOverwrite(d, k, v) == Put(d, k, {v})

(***************************************************************************)
(* _parse_build_file: the two regular expressions, matched with re.match.  *)
(***************************************************************************)
NoMatch == [matched |-> FALSE, g1 |-> "", g2 |-> ""]

\* exe_pattern = r'^build (bin/[^:]+):\s+\S+\s+([^|]+)'
\* c: the first ':' at or after the character following "build bin/";
\* r..w-1: the rule name (\S+); w..d-1: the blanks after it (\s+);
\* group 2 is the longest run without '|' from d, or, when d is the end of
\* the line or a '|', the last of two or more blanks (\s+ gives one back).
exe_match(line) ==
    LET c == FindFrom(line, 11, "colon")
        r == FindFrom(line, c + 1, "notspace")
        w == FindFrom(line, r, "space")
        d == FindFrom(line, w, "notspace")
        e == FindFrom(line, d, "pipe")
    IN  IF ~StartsWith(line, "build bin/") \/ c = 11 \/ c > Len(line)
           \/ r = c + 1 \/ r > Len(line) \/ w > Len(line)
        THEN NoMatch
        ELSE IF d <= Len(line) /\ Char(line, d) # "|"
        THEN [matched |-> TRUE, g1 |-> SubSeq(line, 7, c - 1),
              g2 |-> SubSeq(line, d, e - 1)]
        ELSE IF d - w >= 2
        THEN [matched |-> TRUE, g1 |-> SubSeq(line, 7, c - 1),
              g2 |-> Char(line, d - 1)]
        ELSE NoMatch

ObjectSuffixes == {".cpp.o", ".cu.o", ".hip.o"}

\* obj_pattern = r'^build ([^:]+\.(?:cpp|cu|hip)\.o):\s+\S+\s+([^\s|]+)'
obj_match(line) ==
    LET c == FindFrom(line, 7, "colon")
        g1 == SubSeq(line, 7, c - 1)
        r == FindFrom(line, c + 1, "notspace")
        w == FindFrom(line, r, "space")
        d == FindFrom(line, w, "notspace")
        e == FindFrom(line, d, "space_or_pipe")
    IN  IF ~StartsWith(line, "build ") \/ c > Len(line)
           \/ ~(\E suf \in ObjectSuffixes : EndsWith(g1, suf) /\ Len(g1) > Len(suf))
           \/ r = c + 1 \/ r > Len(line) \/ w > Len(line)
           \/ d > Len(line) \/ Char(line, d) = "|"
        THEN NoMatch
        ELSE [matched |-> TRUE, g1 |-> g1, g2 |-> SubSeq(line, d, e - 1)]

\* the test of line 71 without its absolute-path half
IsObjectDepAnyPath(dep) == EndsWith(dep, ".o")

\* line 71
IsObjectDep(dep) == EndsWith(dep, ".o") /\ ~StartsWith(dep, "/")
\* lines 69-72: the loop over deps_part.split()
object_files_of(deps_part) == SelectSeq(Split(deps_part), IsObjectDep)

\* line 65: the executable branch is taken
is_exe_rule(line) ==
    LET m == exe_match(line)
    IN  m.matched /\ (Contains(line, "EXECUTABLE") \/ Contains(m.g1, "test_")
                      \/ Contains(m.g1, "example_"))

\* the executable stored under its name without the directory
parse_line_exe_basename(e2o, line) ==
    IF is_exe_rule(line)
    THEN Put(e2o, SubSeq(exe_match(line).g1, 5, Len(exe_match(line).g1)),
             object_files_of(Strip(exe_match(line).g2)))
    ELSE e2o

\* one iteration of the loop: the maps after the line
parse_line_exe(e2o, line) ==
    IF is_exe_rule(line)
    THEN Put(e2o, exe_match(line).g1, object_files_of(Strip(exe_match(line).g2)))
    ELSE e2o

parse_line_obj(o2s, line) ==
    IF ~is_exe_rule(line) /\ obj_match(line).matched
    THEN Put(o2s, obj_match(line).g1, obj_match(line).g2)
    ELSE o2s

\* lines 62-82: the whole loop, over the lines ls
RECURSIVE parse_build_file(_)
parse_build_file(ls) ==
    IF Len(ls) = 0
    THEN [executable_to_objects |-> EmptyDict, object_to_source |-> EmptyDict]
    ELSE LET before == parse_build_file(SubSeq(ls, 1, Len(ls) - 1))
         IN  [executable_to_objects |->
                 parse_line_exe(before.executable_to_objects, ls[Len(ls)]),
              object_to_source |->
                 parse_line_obj(before.object_to_source, ls[Len(ls)])]

(***************************************************************************)
(* sorted(): Python orders strings by code point.                          *)
(***************************************************************************)
\* the characters the model's strings use, in code point order
AsciiOrder ==
    "\t\n #(),-./0123456789:ABCDEFGHIJKLMNOPQRSTUVWXYZ_abcdefghijklmnopqrstuvwxyz|"

Ord(c) == CHOOSE i \in 1..Len(AsciiOrder) : Char(AsciiOrder, i) = c

\* a < b for strings
RECURSIVE StrLess(_, _)
StrLess(a, b) ==
    IF Len(b) = 0 THEN FALSE
    ELSE IF Len(a) = 0 THEN TRUE
    ELSE IF Head(a) = Head(b) THEN StrLess(Tail(a), Tail(b))
    ELSE Ord(Head(a)) < Ord(Head(b))

\* sorted(S) for a set S of strings
RECURSIVE sorted(_)
sorted(S) ==
    IF S = {} THEN <<>>
    ELSE LET m == CHOOSE x \in S : \A y \in S \ {x} : StrLess(x, y)
         IN  <<m>> \o sorted(S \ {m})

(***************************************************************************)
(* The dependency tool: what `ninja -t deps <object>` prints when it runs  *)
(* to the end, and the ways one query can end.                             *)
(***************************************************************************)
ninja_stdout(object_file) ==
    CASE object_file = "obj/a.cpp.o" ->
            "obj/a.cpp.o: #deps 3, deps mtime 1 (VALID)\n    ../src/a.cpp\n    ../include/x.hpp\n    /usr/include/stdio.h\n\n"
      [] object_file = "obj/b.cu.o" ->
            "obj/b.cu.o: #deps 2, deps mtime 2 (VALID)\n    ../include/x.hpp\n# stale\n    ../src/b.cu\n\n"
      [] OTHER -> object_file \o ": deps not found\n"

\* returncode 0; returncode != 0; subprocess.TimeoutExpired; OSError
Outcomes == {"ok", "nonzero", "timeout", "error"}

\* the objects of the build files of the extraction specification
TwoDigits(i) ==
    SubSeq("0123456789", (i \div 10) + 1, (i \div 10) + 1)
    \o SubSeq("0123456789", (i % 10) + 1, (i % 10) + 1)

ExtractObject(i) == "obj/t" \o TwoDigits(i) \o ".cpp.o"

\* the object compile rule of the i-th object
ExtractLine(i) ==
    "build " \o ExtractObject(i) \o ": CXX_COMPILER__test_t ../test/t"
    \o TwoDigits(i) \o ".cpp"

\* the i of ExtractObject(i)
ExtractIndex(object_file) ==
    LET value(c) == CHOOSE d \in 0..9 : SubSeq("0123456789", d + 1, d + 1) = c
    IN  10 * value(Char(object_file, 6)) + value(Char(object_file, 7))

IsUnordered(object_file) == ExtractIndex(object_file) <= MaxUnordered

\* how the query of object_file can end. For the objects of the extraction
\* specification: the tool answers, or, for one of the first MaxUnordered
\* objects, hangs until the timeout of line 129, returns non-zero or cannot
\* be run, by the object. For every other object it ends in any way.
query_outcomes(object_file) ==
    IF ~StartsWith(object_file, "obj/t") THEN Outcomes
    ELSE IF ~IsUnordered(object_file) THEN {"ok"}
    ELSE IF ExtractIndex(object_file) % 3 = 1 THEN {"ok", "timeout"}
    ELSE IF ExtractIndex(object_file) % 3 = 2 THEN {"ok", "nonzero"}
    ELSE {"ok", "error"}

\* main(): default_workspace_root, attached to the parser as workspace_root
workspace_root == ".."

\* ws_root.rstrip("/") + "/"
RECURSIVE RStripSlash(_)
RStripSlash(s) ==
    IF Len(s) > 0 /\ Char(s, Len(s)) = "/"
    THEN RStripSlash(SubSeq(s, 1, Len(s) - 1)) ELSE s
ws_prefix == RStripSlash(workspace_root) \o "/"

\* the loop over lines[1:] of the tool's output
RECURSIVE deps_of_lines(_)
deps_of_lines(ls) ==
    IF Len(ls) = 0 THEN <<>>
    ELSE LET line == Strip(Head(ls))
             dep_file == IF StartsWith(line, ws_prefix)
                         THEN SubSeq(line, Len(ws_prefix) + 1, Len(line))
                         ELSE line
         IN  (IF Len(line) > 0 /\ ~StartsWith(line, "#") THEN <<dep_file>> ELSE <<>>)
             \o deps_of_lines(Tail(ls))

\* a failed query that hands back the output's lines all the same
get_object_dependencies_no_guard(object_file, oc) ==
    deps_of_lines(Tail(SplitLines(Strip(ninja_stdout(object_file)))))

\* _get_object_dependencies: what the call returns when the query ends as oc
_get_object_dependencies(object_file, oc) ==
    IF oc = "ok"
    THEN deps_of_lines(Tail(SplitLines(Strip(ninja_stdout(object_file)))))
    ELSE <<>>

(***************************************************************************)
(* main() of enhanced_ninja_parser.py, step by step.                       *)
(***************************************************************************)
\* the lines a build file of the pipeline specification is made of
GraphLines ==
    {"build bin/test_a: CXX_EXECUTABLE_LINKER__test_a obj/a.cpp.o obj/b.cu.o | lib/libutil.so || cmake_object_order_depends",
     "build obj/a.cpp.o: CXX_COMPILER__test_a ../src/a.cpp || cmake_object_order_depends",
     "build obj/b.cu.o: CUDA_COMPILER__test_a ../src/b.cu",
     "build bin/example_b: CXX_EXECUTABLE_LINKER__example_b obj/b.cu.o",
     "build bin/ckProfiler: CXX_EXECUTABLE_LINKER__ckProfiler obj/p.hip.o obj/a.cpp.o /opt/rocm/lib/crt.o"}

BuildFileStates == {"ok", "missing", "unreadable"}

\* `ninja --version`: runs; CalledProcessError; FileNotFoundError; another OSError
ProbeOutcomes == {"ok", "nonzero", "not_found", "os_error"}

\* sys.exit(code), or the interpreter's exit after an uncaught exception
Exit(code) ==
    /\ pc' = "exited"
    /\ exit_code' = code

\* lines 287-289
CheckBuildFile ==
    /\ pc = "start"
    /\ IF build_file = "missing"
       THEN Exit(1)
       ELSE pc' = "probe" /\ UNCHANGED exit_code
    /\ UNCHANGED <<build_file, ninja_probe, content, work_queue, lines, lineIdx,
                   executable_to_objects, object_to_source, task, outcome, result,
                   object_to_all_deps, todo, file_to_executables, csv_file, json_file>>
    /\ UNCHANGED <<classifierVars, filterVars>>

\* the probe left out: main() goes on whatever `ninja --version` did
ProbeResultIgnored == TRUE

ProbeResult == ninja_probe = "ok"

\* lines 291-295; an OSError other than FileNotFoundError is not caught and
\* ends the interpreter with status 1
ProbeNinja ==
    /\ pc = "probe"
    /\ IF ProbeResult
       THEN pc' = "open" /\ UNCHANGED exit_code
       ELSE Exit(1)
    /\ UNCHANGED <<build_file, ninja_probe, content, work_queue, lines, lineIdx,
                   executable_to_objects, object_to_source, task, outcome, result,
                   object_to_all_deps, todo, file_to_executables, csv_file, json_file>>
    /\ UNCHANGED <<classifierVars, filterVars>>

\* lines 54-60: open() raises for a file that cannot be read (nothing in
\* main() catches it); otherwise the text is read and split
ReadBuildFile ==
    /\ pc = "open"
    /\ IF build_file = "unreadable"
       THEN Exit(1) /\ UNCHANGED <<lines, lineIdx>>
       ELSE /\ lines' = SplitLines(content)
            /\ lineIdx' = 0
            /\ pc' = "parse"
            /\ UNCHANGED exit_code
    /\ UNCHANGED <<build_file, ninja_probe, content, work_queue,
                   executable_to_objects, object_to_source, task, outcome, result,
                   object_to_all_deps, todo, file_to_executables, csv_file, json_file>>
    /\ UNCHANGED <<classifierVars, filterVars>>

\* lines 62-82: one iteration of the loop over the lines
ParseLine ==
    /\ pc = "parse"
    /\ lineIdx < Len(lines)
    /\ executable_to_objects' = parse_line_exe(executable_to_objects, lines[lineIdx + 1])
    /\ object_to_source' = parse_line_obj(object_to_source, lines[lineIdx + 1])
    /\ lineIdx' = lineIdx + 1
    /\ UNCHANGED <<pc, build_file, ninja_probe, content, work_queue, lines, task, outcome, result,
                   object_to_all_deps, todo, file_to_executables, csv_file, json_file,
                   exit_code>>
    /\ UNCHANGED <<classifierVars, filterVars>>

\* line 95
MaxWorkersCap == 16

\* the (executable, object index, dependency index) visits of the loops of
\* _build_file_to_executable_mapping
Visits(e2o, o2d) ==
    UNION {UNION {{<<exe, i, j>> : j \in 1..Len(o2d[e2o[exe][i]])} :
                    i \in {k \in 1..Len(e2o[exe]) : e2o[exe][k] \in DOMAIN o2d}} :
             exe \in DOMAIN e2o}

\* line 89: list(self.object_to_source.keys()), the keys in the order the
\* parser first stored them
RECURSIVE object_files(_)
object_files(ls) ==
    IF Len(ls) = 0 THEN <<>>
    ELSE LET before == object_files(SubSeq(ls, 1, Len(ls) - 1))
             line == ls[Len(ls)]
         IN  IF ~is_exe_rule(line) /\ obj_match(line).matched
                /\ obj_match(line).g1 \notin Range(before)
             THEN Append(before, obj_match(line).g1)
             ELSE before

\* lines 89-102: the loop of the parser is over; with no object no task is
\* submitted and nothing is extracted, otherwise one task per object is put
\* on the pool's queue, in the order of object_files
SubmitTasks ==
    /\ pc = "parse"
    /\ lineIdx = Len(lines)
    /\ IF DOMAIN object_to_source = {}
       THEN /\ pc' = "build"
            /\ todo' = Visits(executable_to_objects, object_to_all_deps)
            /\ UNCHANGED <<work_queue, task>>
       ELSE /\ pc' = "extract"
            /\ work_queue' = object_files(lines)
            /\ task' = [o \in DOMAIN object_to_source |-> "queued"]
            /\ UNCHANGED todo
    /\ UNCHANGED <<build_file, ninja_probe, content, lines, lineIdx,
                   executable_to_objects, object_to_source, outcome, result,
                   object_to_all_deps, file_to_executables, csv_file, json_file,
                   exit_code>>
    /\ UNCHANGED <<classifierVars, filterVars>>

InFlight == {o \in DOMAIN task : task[o] = "running"}

\* a pool of every submitted task at once: no limit on the workers
max_workers_unlimited == Cardinality(DOMAIN object_to_source)

\* line 95
max_workers == IF Cardinality(DOMAIN object_to_source) < MaxWorkersCap
               THEN Cardinality(DOMAIN object_to_source) ELSE MaxWorkersCap

\* a worker of the pool (there are at most max_workers of them) takes the
\* task at the head of the queue and calls the tool
StartTask(o) ==
    /\ pc = "extract"
    /\ work_queue # <<>>
    /\ o = Head(work_queue)
    /\ task[o] = "queued"
    /\ Cardinality(InFlight) < max_workers
    /\ work_queue' = Tail(work_queue)
    /\ task' = [task EXCEPT ![o] = "running"]
    /\ UNCHANGED <<pc, build_file, ninja_probe, content, lines, lineIdx,
                   executable_to_objects, object_to_source, outcome, result,
                   object_to_all_deps, todo, file_to_executables, csv_file, json_file,
                   exit_code>>
    /\ UNCHANGED <<classifierVars, filterVars>>

\* lines 121-153: the query ends, one way or another, and the future holds
\* what _get_object_dependencies returned
FinishTask(o) ==
    /\ pc = "extract"
    /\ task[o] = "running"
    /\ \E oc \in query_outcomes(o) :
        /\ outcome' = Put(outcome, o, oc)
        /\ result' = Put(result, o, _get_object_dependencies(o, oc))
    /\ task' = [task EXCEPT ![o] = "finished"]
    /\ UNCHANGED <<pc, build_file, ninja_probe, content, work_queue, lines, lineIdx,
                   executable_to_objects, object_to_source,
                   object_to_all_deps, todo, file_to_executables, csv_file, json_file,
                   exit_code>>
    /\ UNCHANGED <<classifierVars, filterVars>>

\* a merge that drops the key of an empty result
MergeSkipEmpty(o2d, o, deps) == IF deps = <<>> THEN o2d ELSE Put(o2d, o, deps)

\* lines 108-110
Merge(o2d, o, deps) == Put(o2d, o, deps)

\* lines 105-111: as_completed hands a finished future to the main thread
MergeResult(o) ==
    /\ pc = "extract"
    /\ task[o] = "finished"
    /\ object_to_all_deps' = Merge(object_to_all_deps, o, result[o])
    /\ task' = [task EXCEPT ![o] = "merged"]
    /\ UNCHANGED <<pc, build_file, ninja_probe, content, work_queue, lines, lineIdx,
                   executable_to_objects, object_to_source, outcome, result,
                   todo, file_to_executables, csv_file, json_file, exit_code>>
    /\ UNCHANGED <<classifierVars, filterVars>>

\* line 117: every future has been handed over; the pool is shut down
EndExtract ==
    /\ pc = "extract"
    /\ \A o \in DOMAIN task : task[o] = "merged"
    /\ pc' = "build"
    /\ todo' = Visits(executable_to_objects, object_to_all_deps)
    /\ UNCHANGED <<build_file, ninja_probe, content, work_queue, lines, lineIdx,
                   executable_to_objects, object_to_source, task, outcome, result,
                   object_to_all_deps, file_to_executables, csv_file, json_file,
                   exit_code>>
    /\ UNCHANGED <<classifierVars, filterVars>>

\* the same with the set replaced instead of grown
RecordOverwrite(f2e, dep_file, exe) ==
    IF _is_project_file(dep_file) THEN AddToOverwrite(f2e, dep_file, exe) ELSE f2e

\* lines 165-166: one visit of the innermost loop
Record(f2e, dep_file, exe) ==
    IF _is_project_file(dep_file) THEN AddTo(f2e, dep_file, exe) ELSE f2e

\* lines 159-166, the visits taken in any order
BuildStep(v) ==
    /\ pc = "build"
    /\ v \in todo
    /\ file_to_executables' =
          Record(file_to_executables,
                 object_to_all_deps[executable_to_objects[v[1]][v[2]]][v[3]], v[1])
    /\ todo' = todo \ {v}
    /\ UNCHANGED <<pc, build_file, ninja_probe, content, work_queue, lines, lineIdx,
                   executable_to_objects, object_to_source, task, outcome, result,
                   object_to_all_deps, csv_file, json_file, exit_code>>
    /\ UNCHANGED <<classifierVars, filterVars>>

\* lines 168-177 and print_summary: nothing but printing
EndBuild ==
    /\ pc = "build"
    /\ todo = {}
    /\ pc' = "export_csv"
    /\ UNCHANGED <<build_file, ninja_probe, content, work_queue, lines, lineIdx,
                   executable_to_objects, object_to_source, task, outcome, result,
                   object_to_all_deps, todo, file_to_executables, csv_file, json_file,
                   exit_code>>
    /\ UNCHANGED <<classifierVars, filterVars>>

(***************************************************************************)
(* export_to_csv and export_to_json                                        *)
(***************************************************************************)
\* ';'.join
RECURSIVE JoinSemicolon(_)
JoinSemicolon(q) ==
    IF Len(q) = 0 THEN ""
    ELSE IF Len(q) = 1 THEN q[1]
    ELSE q[1] \o ";" \o JoinSemicolon(Tail(q))

\* lines 205-210: the rows after the header, one per file in sorted order
csv_rows(f2e) ==
    LET files == sorted(DOMAIN f2e)
    IN  [i \in 1..Len(files) |-> <<files[i], JoinSemicolon(sorted(f2e[files[i]]))>>]

\* the orders in which iterating a set of strings may yield them: a set of
\* strings is laid out by the strings' hashes, which differ from run to run
Orders(S) == {q \in [1..Cardinality(S) -> S] : \A x \in S : \E i \in DOMAIN q : q[i] = x}

\* list(exes) under the order q of all executables
list_of(exes, q) == SelectSeq(q, LAMBDA e : e \in exes)

\* an inversion that keeps one file per executable
exe_to_files_one(f2e) ==
    [exe \in UNION {f2e[f] : f \in DOMAIN f2e} |->
        {CHOOSE f \in DOMAIN f2e : exe \in f2e[f]}]

\* lines 217-220: the reverse mapping, executable -> files
exe_to_files(f2e) ==
    [exe \in UNION {f2e[f] : f \in DOMAIN f2e} |->
        {f \in DOMAIN f2e : exe \in f2e[f]}]

\* the statistics with the executables counted in the reverse mapping
statistics_from_reverse(f2e, e2o, o2s) ==
    [total_files |-> Cardinality(DOMAIN f2e),
     total_executables |-> Cardinality(DOMAIN exe_to_files(f2e)),
     total_object_files |-> Cardinality(DOMAIN o2s),
     files_with_multiple_executables |->
        Cardinality({f \in DOMAIN f2e : Cardinality(f2e[f]) > 1})]

\* lines 229-234
statistics(f2e, e2o, o2s) ==
    [total_files |-> Cardinality(DOMAIN f2e),
     total_executables |-> Cardinality(DOMAIN e2o),
     total_object_files |-> Cardinality(DOMAIN o2s),
     files_with_multiple_executables |->
        Cardinality({f \in DOMAIN f2e : Cardinality(f2e[f]) > 1})]

\* lines 222-235
mapping_data(f2e, e2o, o2s, q) ==
    [file_to_executables |-> [f \in DOMAIN f2e |-> list_of(f2e[f], q)],
     executable_to_files |->
        [exe \in DOMAIN exe_to_files(f2e) |-> sorted(exe_to_files(f2e)[exe])],
     statistics |-> statistics(f2e, e2o, o2s)]

\* line 307
ExportCsv ==
    /\ pc = "export_csv"
    /\ csv_file' = <<csv_rows(file_to_executables)>>
    /\ pc' = "export_json"
    /\ UNCHANGED <<build_file, ninja_probe, content, work_queue, lines, lineIdx,
                   executable_to_objects, object_to_source, task, outcome, result,
                   object_to_all_deps, todo, file_to_executables, json_file,
                   exit_code>>
    /\ UNCHANGED <<classifierVars, filterVars>>

\* line 308, and main() returns
ExportJson ==
    /\ pc = "export_json"
    /\ \E q \in Orders(DOMAIN executable_to_objects) :
          json_file' = <<mapping_data(file_to_executables, executable_to_objects,
                                      object_to_source, q)>>
    /\ Exit(0)
    /\ UNCHANGED <<build_file, ninja_probe, content, work_queue, lines, lineIdx,
                   executable_to_objects, object_to_source, task, outcome, result,
                   object_to_all_deps, todo, file_to_executables, csv_file>>
    /\ UNCHANGED <<classifierVars, filterVars>>

\* the build files of the pipeline specification
Graphs == {JoinLines(ls) : ls \in SeqUpTo(GraphLines, MaxGraphLines)}

\* the parser as constructed (lines 21-33), before main() has done anything
ParserInit ==
    /\ lines = <<>>
    /\ lineIdx = 0
    /\ executable_to_objects = EmptyDict
    /\ object_to_source = EmptyDict
    /\ work_queue = <<>>
    /\ task = EmptyDict
    /\ outcome = EmptyDict
    /\ result = EmptyDict
    /\ object_to_all_deps = EmptyDict
    /\ todo = {}
    /\ file_to_executables = EmptyDict
    /\ csv_file = <<>>
    /\ json_file = <<>>
    /\ exit_code = 0

ClassifierIdle ==
    /\ path = ""
    /\ verdict = FALSE

FilterIdle ==
    /\ depmap = EmptyDict
    /\ changed_files = {}
    /\ filter_mode = "all"
    /\ tests = <<>>

Init ==
    /\ pc = "start"
    /\ build_file \in BuildFileStates
    /\ ninja_probe \in ProbeOutcomes
    /\ content \in (IF build_file = "ok" THEN Graphs ELSE {""})
    /\ ParserInit
    /\ ClassifierIdle
    /\ FilterIdle

Next ==
    \/ CheckBuildFile
    \/ ProbeNinja
    \/ ReadBuildFile
    \/ ParseLine
    \/ SubmitTasks
    \/ \E o \in DOMAIN task : StartTask(o)
    \/ \E o \in DOMAIN task : FinishTask(o)
    \/ \E o \in DOMAIN task : MergeResult(o)
    \/ EndExtract
    \/ \E v \in todo : BuildStep(v)
    \/ EndBuild
    \/ ExportCsv
    \/ ExportJson

Spec == Init /\ [][Next]_vars

(***************************************************************************)
(* The parser alone, over build files with the shapes its two patterns     *)
(* accept, nearly accept, and reject.                                      *)
(***************************************************************************)
ParseLines ==
    GraphLines \cup
    {"build bin/test_a: CXX_EXECUTABLE_LINKER__test_a obj/b.cu.o",
     "build obj/a.cpp.o: CXX_COMPILER__test_a ../src/a2.cpp",
     "build bin/test_k.cpp.o: CXX_COMPILER__test_k ../test/k.cpp",
     "build bin/libtool.so: CXX_SHARED_LIBRARY_LINKER__tool obj/a.cpp.o",
     "build lib/test_helper: CXX_EXECUTABLE_LINKER__test_helper obj/a.cpp.o",
     "build bin/test_empty: phony",
     "build bin/test_pipe: CXX_EXECUTABLE_LINKER__test_pipe  | lib/libutil.so",
     "build obj/c.c.o: C_COMPILER__test_a ../src/c.c",
     "build obj/d.hip.o:\tHIP_COMPILER__test_d\t../src/d.hip",
     "rule CXX_EXECUTABLE_LINKER__test_a",
     ""}

ParseTexts == {JoinLines(ls) : ls \in SeqUpTo(ParseLines, MaxLines)}

InitParse ==
    /\ pc = "open"
    /\ build_file = "ok"
    /\ ninja_probe = "ok"
    /\ content \in ParseTexts
    /\ ParserInit
    /\ ClassifierIdle
    /\ FilterIdle

\* _parse_build_file returns
EndParse ==
    /\ pc = "parse"
    /\ lineIdx = Len(lines)
    /\ pc' = "parsed"
    /\ UNCHANGED <<build_file, ninja_probe, content, work_queue, lines, lineIdx,
                   executable_to_objects, object_to_source, task, outcome, result,
                   object_to_all_deps, todo, file_to_executables, csv_file, json_file,
                   exit_code>>
    /\ UNCHANGED <<classifierVars, filterVars>>

NextParse ==
    \/ ReadBuildFile
    \/ ParseLine
    \/ EndParse

SpecParse == InitParse /\ [][NextParse]_vars

(***************************************************************************)
(* The extraction alone, over build files with fewer objects than the      *)
(* pool's limit and with more.                                             *)
(***************************************************************************)
\* numbers of objects: fewer than the limit of line 95, and more than it
ExtractSizes == {2, MaxWorkersCap + 2}

ExtractTexts == {JoinLines([i \in 1..n |-> ExtractLine(i)]) : n \in ExtractSizes}

\* the parser has gone through the lines of the build file
InitExtract ==
    /\ pc = "parse"
    /\ build_file = "ok"
    /\ ninja_probe = "ok"
    /\ content \in ExtractTexts
    /\ lines = SplitLines(content)
    /\ lineIdx = Len(lines)
    /\ executable_to_objects = parse_build_file(lines).executable_to_objects
    /\ object_to_source = parse_build_file(lines).object_to_source
    /\ work_queue = <<>>
    /\ task = EmptyDict
    /\ outcome = EmptyDict
    /\ result = EmptyDict
    /\ object_to_all_deps = EmptyDict
    /\ todo = {}
    /\ file_to_executables = EmptyDict
    /\ csv_file = <<>>
    /\ json_file = <<>>
    /\ exit_code = 0
    /\ ClassifierIdle
    /\ FilterIdle

\* the running queries that may end next: any of the first MaxUnordered
\* objects, and of the others the one that was started first, once the
\* future of the one before it has been handed over
Finishable ==
    {o \in InFlight :
        \/ IsUnordered(o)
        \/ /\ \A o2 \in InFlight :
                 IsUnordered(o2) \/ ExtractIndex(o) <= ExtractIndex(o2)
           /\ \A o2 \in DOMAIN task : task[o2] = "finished" => IsUnordered(o2)}

\* the finished futures as_completed may hand over next
Mergeable == {o \in DOMAIN task : task[o] = "finished"}

\* a step of the pool's threads or of the loop over as_completed
ExtractStep ==
    \/ EndExtract
    \/ \E o \in DOMAIN task : StartTask(o)
    \/ \E o \in Mergeable : MergeResult(o)
    \/ \E o \in Finishable : FinishTask(o)

NextExtract ==
    \/ SubmitTasks
    \/ ExtractStep

\* the pool's threads and the main thread keep running, and subprocess.run
\* returns or raises within its timeout: while a step of the extraction can
\* be taken, one is taken
SpecExtract == InitExtract /\ [][NextExtract]_vars /\ WF_vars(ExtractStep)

(***************************************************************************)
(* The classifier alone.                                                   *)
(***************************************************************************)
PathHeads ==
    IncludePrefixes \cup ExcludePrefixes \cup
    {"", "../", "lib/", "usr/", "/home/ck/", "/opt/", "build-ninja/_deps/", "/include/"}
PathStems == {"", "x", "dir/test_x"}
PathTails == SourceExtensions \cup {"", ".o", ".txt", ".hpp.in", ".H"}

Paths == {h \o m \o t : h \in PathHeads, m \in PathStems, t \in PathTails}

InitClassify ==
    /\ pc = "classify"
    /\ path \in Paths
    /\ verdict = FALSE
    /\ build_file = "ok"
    /\ ninja_probe = "ok"
    /\ content = ""
    /\ ParserInit
    /\ FilterIdle

\* a call of _is_project_file
Classify ==
    /\ pc = "classify"
    /\ verdict' = _is_project_file(path)
    /\ pc' = "classified"
    /\ UNCHANGED <<build_file, ninja_probe, content, work_queue, lines, lineIdx,
                   executable_to_objects, object_to_source, task, outcome, result,
                   object_to_all_deps, todo, file_to_executables, csv_file, json_file,
                   exit_code>>
    /\ UNCHANGED <<path, filterVars>>

NextClassify == Classify

SpecClassify == InitClassify /\ [][NextClassify]_vars

(***************************************************************************)
(* select_tests                                                            *)
(***************************************************************************)
\* the selection with the filter mode left out
select_tests_unfiltered(f2e, changed, mode) ==
    sorted(UNION {Range(f2e[f]) : f \in changed \cap DOMAIN f2e})

\* lines 52-62
select_tests(f2e, changed, mode) ==
    sorted({exe \in UNION {Range(f2e[f]) : f \in changed \cap DOMAIN f2e} :
               \/ mode = "all"
               \/ mode = "test_prefix" /\ StartsWith(exe, "test_")})

FilterFiles == {"src/a.cpp", "include/b.hpp", "README.md"}
FilterExes == {"test_x", "test_y", "bin/test_x"}

\* the loaded mappings: a list of executables for each of a few files
DepMaps ==
    UNION {[K -> SeqUpTo(FilterExes, 2)] :
             K \in {S \in SUBSET FilterFiles : Cardinality(S) <= MaxKeys}}

\* lines 106-112: the two modes main() can pass
FilterModes == {"all", "test_prefix"}

InitSelect ==
    /\ pc = "select"
    /\ depmap \in DepMaps
    /\ changed_files \in SUBSET FilterFiles
    /\ filter_mode \in FilterModes
    /\ tests = <<>>
    /\ build_file = "ok"
    /\ ninja_probe = "ok"
    /\ content = ""
    /\ ParserInit
    /\ ClassifierIdle

\* line 128
SelectTests ==
    /\ pc = "select"
    /\ tests' = select_tests(depmap, changed_files, filter_mode)
    /\ pc' = "selected"
    /\ UNCHANGED <<build_file, ninja_probe, content, work_queue, lines, lineIdx,
                   executable_to_objects, object_to_source, task, outcome, result,
                   object_to_all_deps, todo, file_to_executables, csv_file, json_file,
                   exit_code>>
    /\ UNCHANGED <<classifierVars, depmap, changed_files, filter_mode>>

NextSelect == SelectTests

SpecSelect == InitSelect /\ [][NextSelect]_vars

(***************************************************************************)
(* The parser's main() followed by the filter's main() on the JSON file    *)
(* the parser exported.                                                    *)
(***************************************************************************)
\* the lines of the build files: executables with a test_ name under bin/
\* and elsewhere, and their objects
ImpactLines ==
    {"build bin/test_a: CXX_EXECUTABLE_LINKER__test_a obj/a.cpp.o obj/b.cu.o | lib/libutil.so || cmake_object_order_depends",
     "build obj/a.cpp.o: CXX_COMPILER__test_a ../src/a.cpp || cmake_object_order_depends",
     "build obj/b.cu.o: CUDA_COMPILER__test_a ../src/b.cu",
     "build lib/test_helper: CXX_EXECUTABLE_LINKER__test_helper obj/a.cpp.o",
     "build test_local: CXX_EXECUTABLE_LINKER__test_local obj/b.cu.o"}

ImpactGraphs == {JoinLines(ls) : ls \in SeqUpTo(ImpactLines, MaxGraphLines)}

\* what `git diff --name-only` can list
ImpactFiles == {"src/a.cpp", "include/x.hpp", "README.md"}

InitImpact ==
    /\ pc = "start"
    /\ build_file = "ok"
    /\ ninja_probe = "ok"
    /\ content \in ImpactGraphs
    /\ ParserInit
    /\ ClassifierIdle
    /\ FilterIdle

\* selective_test_filter.py, lines 43-50
load_depmap(data) ==
    IF "file_to_executables" \in DOMAIN data THEN data.file_to_executables ELSE data

\* selective_test_filter.py, lines 106-127: the mode is read from the
\* arguments, the exported file is there, the changed files are listed and,
\* unless there is none, the mapping is loaded
LoadDepmap ==
    /\ pc = "exited"
    /\ exit_code = 0
    /\ Len(json_file) = 1
    /\ \E mode \in FilterModes, changed \in SUBSET ImpactFiles :
          /\ filter_mode' = mode
          /\ changed_files' = changed
          /\ IF changed = {}
             THEN pc' = "selected" /\ tests' = <<>> /\ UNCHANGED depmap
             ELSE pc' = "select" /\ depmap' = load_depmap(json_file[1])
                  /\ UNCHANGED tests
    /\ UNCHANGED <<build_file, ninja_probe, content, work_queue, lines, lineIdx,
                   executable_to_objects, object_to_source, task, outcome, result,
                   object_to_all_deps, todo, file_to_executables, csv_file, json_file,
                   exit_code>>
    /\ UNCHANGED classifierVars

NextImpact ==
    \/ Next
    \/ LoadDepmap
    \/ SelectTests

SpecImpact == InitImpact /\ [][NextImpact]_vars

(***************************************************************************)
(* The properties.                                                         *)
(***************************************************************************)
JsonWritten == Len(json_file) = 1

\* main() is past _build_file_to_executable_mapping
BuildOver == pc \in {"export_csv", "export_json"} \/ (pc = "exited" /\ exit_code = 0)

\* main() is past _extract_object_dependencies
ExtractionOver == pc = "build" \/ BuildOver

\* the objects whose dependency query failed
Failed == {o \in DOMAIN outcome : outcome[o] # "ok"}

\* the (file, executable) pairs of a file -> {executables} map
PairsOf(f2e) == UNION {{<<f, e>> : e \in f2e[f]} : f \in DOMAIN f2e}

\* the file -> {executables} map of a set of (file, executable) pairs
MappingOf(P) == [f \in {p[1] : p \in P} |-> {p[2] : p \in {q \in P : q[1] = f}}]

\* the (file, executable) pairs of the forward maps: a project file and an
\* executable one of whose objects has the file among its dependencies
Pairs(e2o, o2d) ==
    UNION {UNION {{<<d, exe>> : d \in {x \in Range(o2d[o]) : _is_project_file(x)}} :
                    o \in Range(e2o[exe]) \cap DOMAIN o2d} :
             exe \in DOMAIN e2o}

\* C1: in the exported mapping, for all files f and executables e, e is in
\* file_to_executables[f] if and only if f is in executable_to_files[e].
InverseConsistency ==
    JsonWritten =>
        LET f2e == json_file[1].file_to_executables
            e2f == json_file[1].executable_to_files
            files == DOMAIN f2e \cup UNION {Range(e2f[e]) : e \in DOMAIN e2f}
            exes == DOMAIN e2f \cup DOMAIN executable_to_objects
                    \cup UNION {Range(f2e[f]) : f \in DOMAIN f2e}
        IN  \A f \in files : \A e \in exes :
                (f \in DOMAIN f2e /\ e \in Range(f2e[f]))
                    <=> (e \in DOMAIN e2f /\ f \in Range(e2f[e]))

\* a mapping was exported in which one file has two executables and one
\* executable has two files
InverseConsistencyWitness ==
    /\ JsonWritten
    /\ \E f \in DOMAIN json_file[1].file_to_executables :
          Len(json_file[1].file_to_executables[f]) >= 2
    /\ \E e \in DOMAIN json_file[1].executable_to_files :
          Len(json_file[1].executable_to_files[e]) >= 2

\* C2: select_tests returns a strictly increasing list whose elements are
\* exactly the executables of the changed files that are keys of the mapping,
\* all of them in mode 'all', those that start with 'test_' otherwise; a
\* changed file that is no key contributes nothing.
SelectTestsCorrect ==
    pc = "selected" =>
        /\ \A i \in 1..Len(tests) : \A j \in 1..Len(tests) :
              i < j => StrLess(tests[i], tests[j])
        /\ Range(tests) =
              {e \in FilterExes :
                  /\ \E f \in changed_files :
                        f \in DOMAIN depmap /\ e \in Range(depmap[f])
                  /\ (filter_mode = "all" \/ StartsWith(e, "test_"))}
        /\ (changed_files \cap DOMAIN depmap = {} => tests = <<>>)

\* in prefix mode two tests were selected, one executable was filtered out
\* and one changed file was no key of the mapping
SelectTestsWitness ==
    /\ pc = "selected"
    /\ filter_mode = "test_prefix"
    /\ Len(tests) = 2
    /\ changed_files \ DOMAIN depmap # {}
    /\ \E f \in changed_files \cap DOMAIN depmap :
          \E e \in Range(depmap[f]) : ~StartsWith(e, "test_")
    /\ \E f \in changed_files \cap DOMAIN depmap :
          Len(depmap[f]) = 2 /\ depmap[f][1] = depmap[f][2]

\* what every query returns when none fails
AllSuccessDeps ==
    [o \in DOMAIN object_to_source |-> _get_object_dependencies(o, "ok")]

\* C3: when the query of exactly one object O fails, file_to_executables is
\* the mapping of the all-success run with O's dependency list emptied: every
\* pair another object contributes is present, and no pair is added.
PartialFailureIsolation ==
    (BuildOver /\ Cardinality(Failed) = 1) =>
        LET O == CHOOSE o \in Failed : TRUE
            others == [o \in DOMAIN object_to_source \ {O} |-> AllSuccessDeps[o]]
        IN  /\ file_to_executables =
                  MappingOf(Pairs(executable_to_objects,
                                  [AllSuccessDeps EXCEPT ![O] = <<>>]))
            /\ Pairs(executable_to_objects, others) \subseteq PairsOf(file_to_executables)
            /\ PairsOf(file_to_executables)
                  \subseteq Pairs(executable_to_objects, AllSuccessDeps)

\* one query timed out, for an object of an executable whose other object
\* still contributed, and the mapping is smaller than the all-success one
PartialFailureWitness ==
    /\ BuildOver
    /\ Cardinality(Failed) = 1
    /\ \E O \in Failed :
          /\ outcome[O] = "timeout"
          /\ \E exe \in DOMAIN executable_to_objects :
                /\ O \in Range(executable_to_objects[exe])
                /\ \E f \in DOMAIN file_to_executables : exe \in file_to_executables[f]
    /\ PairsOf(file_to_executables)
          # Pairs(executable_to_objects, AllSuccessDeps)

\* C4: after the extraction object_to_all_deps has the keys of
\* object_to_source (none for no object), a failed query's object maps to the
\* empty list, and the map is the one the queries' outcomes fix, whatever the
\* order in which the tasks finished.
ExtractionComplete ==
    ExtractionOver =>
        /\ DOMAIN object_to_all_deps = DOMAIN object_to_source
        /\ \A o \in Failed : object_to_all_deps[o] = <<>>
        /\ object_to_all_deps =
              [o \in DOMAIN object_to_source |->
                  _get_object_dependencies(o, outcome[o])]

\* two objects were extracted, one query failed and one did not
ExtractionWitness ==
    /\ ExtractionOver
    /\ Cardinality(DOMAIN object_to_all_deps) = 2
    /\ \E o \in DOMAIN outcome : outcome[o] = "error"
    /\ \E o \in DOMAIN outcome : outcome[o] = "ok" /\ Len(object_to_all_deps[o]) > 0

\* no object: the extraction was skipped and the map is empty
ExtractionNoObjectWitness ==
    /\ ExtractionOver
    /\ DOMAIN object_to_source = {}
    /\ DOMAIN executable_to_objects # {}

\* the four rules of the policy, as conditions on the path
HasIncludePrefix(p) == \E prefix \in IncludePrefixes : StartsWith(p, prefix)
HasExcludePrefix(p) == \E prefix \in ExcludePrefixes : StartsWith(p, prefix)
HasSourceExtension(p) == \E ext \in SourceExtensions : EndsWith(p, ext)

\* C5: _is_project_file answers for every path, and its answer is that of
\* the first rule that matches: include prefix -> true, exclude prefix ->
\* false, allow-listed extension -> true, otherwise false.
ClassifierPolicy ==
    pc = "classified" =>
        /\ verdict \in BOOLEAN
        /\ verdict = (HasIncludePrefix(path)
                        \/ (~HasExcludePrefix(path) /\ HasSourceExtension(path)))
        /\ (HasIncludePrefix(path) /\ HasExcludePrefix(path) => verdict)
        /\ (~HasIncludePrefix(path) /\ HasExcludePrefix(path) => ~verdict)

\* a path with an exclude prefix and an allow-listed extension was refused
ClassifierWitness ==
    /\ pc = "classified"
    /\ HasExcludePrefix(path)
    /\ HasSourceExtension(path)
    /\ ~verdict

\* a build line as the build graph's format reads it: "build", the output
\* up to the first ':', the rule name, and the rest
IsBuildLine(line) == StartsWith(line, "build ") /\ FindFrom(line, 1, "colon") <= Len(line)
DeclaredOutput(line) == SubSeq(line, 7, FindFrom(line, 1, "colon") - 1)
AfterColon(line) == SubSeq(line, FindFrom(line, 1, "colon") + 1, Len(line))

\* everything after the rule name, up to the first '|'
DependencyList(line) ==
    LET rule == FindFrom(AfterColon(line), 1, "notspace")
        rest == SubSeq(AfterColon(line), FindFrom(AfterColon(line), rule, "space"),
                       Len(AfterColon(line)))
    IN  SubSeq(rest, 1, FindFrom(rest, 1, "pipe") - 1)

\* the output is under bin/ and the line carries the EXECUTABLE tag or the
\* output carries one of the two naming conventions
QualifiesAsExecutable(line) ==
    /\ IsBuildLine(line)
    /\ StartsWith(DeclaredOutput(line), "bin/")
    /\ \/ Contains(line, "EXECUTABLE")
       \/ Contains(DeclaredOutput(line), "test_")
       \/ Contains(DeclaredOutput(line), "example_")

\* the tokens of the dependency list that end in .o and are not absolute
ObjectTokens(line) ==
    SelectSeq(Split(DependencyList(line)),
              LAMBDA t : EndsWith(t, ".o") /\ ~StartsWith(t, "/"))

\* C6: a line changes executable_to_objects only if its output is under
\* bin/ and it is tagged EXECUTABLE or named test_/example_, and then the
\* value stored under its output is the sequence, in line order, of the
\* tokens of its dependency list that end in .o and are not absolute; every
\* other line leaves executable_to_objects unchanged.
ExecutableRuleContribution ==
    [][(pc = "parse" /\ lineIdx' = lineIdx + 1
            /\ executable_to_objects' # executable_to_objects)
        => /\ QualifiesAsExecutable(lines[lineIdx + 1])
           /\ executable_to_objects' =
                 Put(executable_to_objects, DeclaredOutput(lines[lineIdx + 1]),
                     ObjectTokens(lines[lineIdx + 1]))]_vars

\* a line tagged EXECUTABLE, with an absolute .o and an order-only part among
\* its dependencies, stored its two relative objects in line order
ExecutableRuleWitness ==
    /\ pc = "parse"
    /\ lineIdx >= 1
    /\ Contains(lines[lineIdx], "/opt/rocm/lib/crt.o")
    /\ "bin/ckProfiler" \in DOMAIN executable_to_objects
    /\ executable_to_objects["bin/ckProfiler"] = <<"obj/p.hip.o", "obj/a.cpp.o">>

\* C7: when the build file is missing or cannot be opened, or the tool cannot
\* be invoked, main() never gets past the open, ends with a non-zero status,
\* and neither builds nor exports any mapping.
FatalShortCircuit ==
    (build_file # "ok" \/ ninja_probe # "ok") =>
        /\ pc \in {"start", "probe", "open", "exited"}
        /\ (pc = "exited" => exit_code # 0)
        /\ file_to_executables = EmptyDict
        /\ csv_file = <<>>
        /\ json_file = <<>>

\* the tool answered but the build file could not be opened: exit status 1
FatalWitness ==
    /\ pc = "exited"
    /\ exit_code = 1
    /\ build_file = "unreadable"
    /\ ninja_probe = "ok"

\* the tool could not be invoked: exit status 1
FatalToolWitness ==
    /\ pc = "exited"
    /\ exit_code = 1
    /\ build_file = "ok"
    /\ ninja_probe = "not_found"

\* C8: whatever the order in which the executables, their objects and the
\* objects' dependencies were visited, file_to_executables ends as the
\* mapping that the build file's text and the queries' outcomes fix.
ReverseIndexDeterministic ==
    pc = "export_csv" =>
        LET parsed == parse_build_file(SplitLines(content))
        IN  file_to_executables =
                MappingOf(Pairs(parsed.executable_to_objects,
                                [o \in DOMAIN parsed.object_to_source |->
                                    _get_object_dependencies(o, outcome[o])]))

\* the build is over and one file is recorded under two executables
ReverseIndexWitness ==
    /\ pc = "export_csv"
    /\ Cardinality(DOMAIN file_to_executables) >= 2
    /\ \E f \in DOMAIN file_to_executables : Cardinality(file_to_executables[f]) = 2

\* an object compile line as C9 describes it: the output ends in .cpp.o,
\* .cu.o or .hip.o and a rule name and a first token follow it
IsObjectCompileLine(line) ==
    /\ IsBuildLine(line)
    /\ \E suf \in ObjectSuffixes : EndsWith(DeclaredOutput(line), suf)
    /\ Len(Split(AfterColon(line))) >= 2
    /\ ~StartsWith(Split(AfterColon(line))[2], "|")

\* the first token after the rule name
FirstToken(line) ==
    SubSeq(Split(AfterColon(line))[2], 1,
           FindFrom(Split(AfterColon(line))[2], 1, "pipe") - 1)

ObjectCompileLines == {i \in 1..Len(lines) : IsObjectCompileLine(lines[i])}

\* C9: after the parse, object_to_source has one key for every output of an
\* object compile line and no other key, and maps it to the first token after
\* the rule name of the last such line.
ObjectSourceLastWriteWins ==
    pc = "parsed" =>
        /\ DOMAIN object_to_source =
              {DeclaredOutput(lines[i]) : i \in ObjectCompileLines}
        /\ \A i \in ObjectCompileLines :
              (\A j \in ObjectCompileLines :
                    j > i => DeclaredOutput(lines[j]) # DeclaredOutput(lines[i]))
              => /\ DeclaredOutput(lines[i]) \in DOMAIN object_to_source
                 /\ object_to_source[DeclaredOutput(lines[i])] = FirstToken(lines[i])

\* C10 as stated: total_executables is the number of keys of
\* executable_to_files.
StatisticsFromExportedMaps ==
    JsonWritten =>
        LET m == json_file[1]
        IN  /\ m.statistics.total_files = Cardinality(DOMAIN m.file_to_executables)
            /\ m.statistics.total_executables = Cardinality(DOMAIN m.executable_to_files)
            /\ m.statistics.files_with_multiple_executables =
                  Cardinality({f \in DOMAIN m.file_to_executables :
                                  Cardinality(Range(m.file_to_executables[f])) > 1})

\* C10, amended: total_files is the number of keys of file_to_executables,
\* total_executables is the number of keys of executable_to_objects (the
\* executables the parser found, which is at least the number of keys of
\* executable_to_files), and files_with_multiple_executables is the number
\* of files whose executable set has more than one element.
StatisticsFromParsedExecutables ==
    JsonWritten =>
        LET m == json_file[1]
        IN  /\ m.statistics.total_files = Cardinality(DOMAIN m.file_to_executables)
            /\ m.statistics.total_executables = Cardinality(DOMAIN executable_to_objects)
            /\ m.statistics.total_executables >= Cardinality(DOMAIN m.executable_to_files)
            /\ m.statistics.files_with_multiple_executables =
                  Cardinality({f \in DOMAIN m.file_to_executables :
                                  Cardinality(Range(m.file_to_executables[f])) > 1})

\* a mapping was exported with files in it and with an executable that has
\* no file at all
StatisticsWitness ==
    /\ JsonWritten
    /\ json_file[1].statistics.total_files >= 2
    /\ json_file[1].statistics.total_executables
          > Cardinality(DOMAIN json_file[1].executable_to_files)

\* min(16, number of object files)
QueryLimit ==
    IF Cardinality(DOMAIN object_to_source) < 16
    THEN Cardinality(DOMAIN object_to_source) ELSE 16

\* C11: in every state at most min(16, number of object files) queries are
\* in flight; a query is started only for a task still waiting, is started
\* once, and a task that has ended stays ended; and once the extraction has
\* begun it ends, with every object queried and every result handed over,
\* whichever queries time out or fail.
BoundedConcurrency ==
    /\ [](Cardinality(InFlight) <= QueryLimit)
    /\ [][\A o \in DOMAIN task :
            /\ (task[o] # "running" /\ task'[o] = "running") => task[o] = "queued"
            /\ task[o] = "running" => task'[o] \in {"running", "finished"}
            /\ task[o] = "finished" => task'[o] \in {"finished", "merged"}
            /\ task[o] = "merged" => task'[o] = "merged"]_vars
    /\ (pc = "extract") ~>
          (/\ pc = "build"
           /\ DOMAIN outcome = DOMAIN object_to_source
           /\ \A o \in DOMAIN object_to_source : task[o] = "merged")

\* sixteen queries are in flight, of more than sixteen objects, after a
\* query has timed out and while another object waits for a worker
BoundedConcurrencyWitness ==
    /\ pc = "extract"
    /\ Cardinality(DOMAIN object_to_source) > 16
    /\ Cardinality(InFlight) = 16
    /\ \E o \in DOMAIN outcome : outcome[o] = "timeout"
    /\ work_queue # <<>>

\* the executables the loaded mapping lists for the changed files
Affected == UNION {Range(depmap[f]) : f \in changed_files \cap DOMAIN depmap}

\* C12: every key of executable_to_objects begins with "bin/", and so does
\* every executable of an exported mapping; on a mapping the pipeline
\* exported select_tests returns, whatever the changed files, the empty
\* list in mode "test_prefix" and the sorted affected executables in mode
\* "all".
TestPrefixSelectsNothing ==
    /\ \A exe \in DOMAIN executable_to_objects : StartsWith(exe, "bin/")
    /\ JsonWritten =>
          /\ \A f \in DOMAIN json_file[1].file_to_executables :
                \A exe \in Range(json_file[1].file_to_executables[f]) :
                    StartsWith(exe, "bin/")
          /\ \A exe \in DOMAIN json_file[1].executable_to_files :
                StartsWith(exe, "bin/")
    /\ (pc = "selected" /\ changed_files # {}) =>
          /\ depmap = json_file[1].file_to_executables
          /\ filter_mode = "test_prefix" => tests = <<>>
          /\ filter_mode = "all" => tests = sorted(Affected)

\* the filter ran in mode "test_prefix" on an exported mapping that lists
\* the executable bin/test_a for a changed file, and returned nothing
TestPrefixWitness ==
    /\ pc = "selected"
    /\ filter_mode = "test_prefix"
    /\ "bin/test_a" \in Affected
    /\ tests = <<>>

=============================================================================
